---- MODULE Spec2Model ----
(***************************************************************************)
(* Transaction dispatch of the wallet actions sendTransaction              *)
(* (sign-and-submit) and signTransaction (sign-only).                      *)
(*                                                                         *)
(* A dispatch is one call of either function.  Each await of the source is *)
(* a suspension point: the synchronous code up to an await is one action,  *)
(* the collaborator's answer resumes the dispatch in the next action.      *)
(* JavaScript objects are functions from the keys that are present to      *)
(* tagged values <<"num", n>> (a number) or <<"hex", n>> (its hex string). *)
(***************************************************************************)
EXTENDS Integers, Sequences, FiniteSets, TLC

VARIABLES client, nodeChainId, switches, disp

vars == <<client, nodeChainId, switches, disp>>

(***************************************************************************)
(* Bounds of the model.                                                    *)
(***************************************************************************)
MaxChainId == 1
MaxEstimate == 2
MaxSetFields == 2
MaxResp == 1
MaxSwitches == 1
NumDispatches == 2

ChainIds == 0..MaxChainId
Dispatches == 1..NumDispatches

(***************************************************************************)
(* Values and objects.                                                     *)
(***************************************************************************)
Num(n) == <<"num", n>>
Hex(n) == <<"hex", n>>
Val(v) == v[2]

EmptyObj == [k \in {} |-> Num(0)]
Obj(k, v) == [x \in {k} |-> v]
\* {...lo, ...hi}: the later spread wins on a key both have
Spread(lo, hi) == [k \in (DOMAIN lo) \cup (DOMAIN hi) |->
                     IF k \in DOMAIN hi THEN hi[k] ELSE lo[k]]
Pick(o, keys) == [k \in (DOMAIN o) \cap keys |-> o[k]]
Omit(o, keys) == [k \in (DOMAIN o) \ keys |-> o[k]]

\* numberToHex: a number to its hex string
numberToHex(n) == Hex(n)

(***************************************************************************)
(* Accounts and chains.                                                    *)
(***************************************************************************)
NoAccount == [type |-> "undefined", address |-> 0]
LocalAccount(a) == [type |-> "local", address |-> a]
JsonRpcAccount(a) == [type |-> "json-rpc", address |-> a]
BareAddress(a) == [type |-> "address", address |-> a]

\* parseAccount: a bare address becomes a json-rpc account, an account is kept
parseAccount(a) == IF a.type = "address" THEN JsonRpcAccount(a.address) ELSE a

UndefinedChain == [kind |-> "undefined", id |-> 0, formatter |-> 0, serializer |-> 0]
NullChain == [kind |-> "null", id |-> 0, formatter |-> 0, serializer |-> 0]
\* A chain with hooks > 0 declares formatters.transactionRequest.format and
\* serializers.transaction; hook 0 is an undeclared hook.
Chain(i, h) == [kind |-> "chain", id |-> i, formatter |-> h, serializer |-> h]
\* every id without hooks, and the chain of the highest id with hooks of its own
Chains == {Chain(i, 0) : i \in ChainIds} \cup {Chain(MaxChainId, MaxChainId + 1)}

(***************************************************************************)
(* The keys of a transaction request.                                      *)
(***************************************************************************)
\* the fields sendTransaction destructures by name
NamedKeys == {"accessList", "data", "gas", "gasPrice", "maxFeePerGas",
              "maxPriorityFeePerGas", "nonce", "to", "value"}
\* the numeric fields formatTransactionRequest encodes in hex
HexKeys == {"gas", "gasPrice", "maxFeePerGas", "maxPriorityFeePerGas", "nonce", "value"}
\* the extra field a chain's own formatter knows (Celo's gatewayFee)
ChainKeys == {"gatewayFee"}
\* the fee and nonce fields estimation fills
FeeKeys(o) == {"gas", "nonce"} \cup
              (IF "gasPrice" \in DOMAIN o THEN {}
               ELSE {"maxFeePerGas", "maxPriorityFeePerGas"})

(***************************************************************************)
(* Collaborators that live outside the two entry points.                   *)
(***************************************************************************)
Undefined == 0 - 1
ChainIdOrUndefined == ChainIds \cup {Undefined}
\* JavaScript's !chainId: undefined and 0 are both falsy
Falsy(c) == c = Undefined \/ c = 0

\* assertRequest: TRUE when the request passes.  o = [account, tx]
assertRequest(o) ==
  /\ ~({"gasPrice", "maxFeePerGas"} \subseteq DOMAIN o.tx)
  /\ ~(/\ "from" \in DOMAIN o.tx
       /\ o.account # NoAccount
       /\ Val(o.tx["from"]) # o.account.address)

\* assertCurrentChain: "ok", or the failure it raises
assertCurrentChain(currentChainId, chain) ==
  IF chain.kind # "chain" THEN "ChainNotFound"
  ELSE IF currentChainId # chain.id THEN "ChainMismatch"
  ELSE "ok"

\* prepareRequest: estimation fills the fee and nonce fields left unset
prepareRequest(o, est) ==
  Spread([k \in FeeKeys(o) |-> Num(est)], o)

\* the keys format({}) yields: what the formatter with this hook knows
FormatKeys(hook) == HexKeys \cup (IF hook > 0 THEN ChainKeys ELSE {})

\* formatTransactionRequest (hook 0) or the chain's own format (hook > 0):
\* every known numeric field becomes hex, every other key is passed through
Format(hook, o) ==
  [k \in DOMAIN o |-> IF k \in FormatKeys(hook) THEN numberToHex(Val(o[k])) ELSE o[k]]

\* extract: the keys of value that the formatter knows
extract(value, hook) == Pick(value, FormatKeys(hook))

\* account.signTransaction: the serialized bytes, a deterministic function of
\* the record and of the serializer
Serialized(record, serializer) == Spread(record, Obj("serializedBy", Num(serializer)))

\* what client.request answers
Response(r) == Obj("result", Num(r))

(***************************************************************************)
(* Errors.                                                                 *)
(***************************************************************************)
NoError == [cause |-> "none", wraps |-> 0, intent |-> EmptyObj,
            account |-> NoAccount, chain |-> UndefinedChain]
Error(kind) == [NoError EXCEPT !.cause = kind]

\* getTransactionError: a new error around err, with the context attached
getTransactionError(err, ctx) ==
  [cause |-> err.cause, wraps |-> err.wraps + 1, intent |-> ctx.tx,
   account |-> ctx.account, chain |-> ctx.chain]

(***************************************************************************)
(* One dispatch.                                                           *)
(***************************************************************************)
Event(op, method, payload, serializer) ==
  [op |-> op, method |-> method, payload |-> payload, serializer |-> serializer]

NoResult == [status |-> "pending", value |-> EmptyObj, error |-> NoError]

NewDispatch(mode, args) ==
  [mode |-> mode, args |-> args, pc |-> "start",
   account |-> NoAccount, chain |-> UndefinedChain, chainId |-> Undefined,
   request |-> EmptyObj, trace |-> <<>>, result |-> NoResult]

Unused == [NewDispatch("unused", [account |-> NoAccount, chain |-> UndefinedChain,
                                  tx |-> EmptyObj]) EXCEPT !.pc = "done"]

Log(s, ev) == [s EXCEPT !.trace = Append(@, ev)]
Goto(s, pc) == [s EXCEPT !.pc = pc]
Throw(s, err) ==
  [s EXCEPT !.pc = "done",
            !.result = [status |-> "error", value |-> EmptyObj, error |-> err]]
Return(s, v) ==
  [s EXCEPT !.pc = "done",
            !.result = [status |-> "ok", value |-> v, error |-> NoError]]

\* const { account: account_ = client.account, chain = client.chain, ... } = args
DefaultAccount(args, cl) == IF args.account = NoAccount THEN cl.account ELSE args.account
DefaultChain(args, cl) == IF args.chain = UndefinedChain THEN cl.chain ELSE args.chain

FormatterOf(chain) == chain.formatter
SerializerOf(chain) == chain.serializer

CallGetChainId(s, pc) == Log(Goto(s, pc), Event("getChainId", "eth_chainId", EmptyObj, 0))
CallSign(s, record, serializer) ==
  Log(Goto([s EXCEPT !.request = record], "sign"),
      Event("signTransaction", "", record, serializer))
CallRequest(s, pc, method, param) == Log(Goto(s, pc), Event("request", method, param, 0))

(***************************************************************************)
(* sendTransaction.                                                        *)
(***************************************************************************)
\* mutant: the account attached is the one of the arguments, not the parsed one
sendCatchContextArgsAccount(s) ==
  [tx |-> s.args.tx, account |-> s.args.account,
   chain |-> IF s.args.chain.kind = "chain" THEN s.args.chain ELSE UndefinedChain]

\* the context the catch block attaches: { ...args, account, chain: args.chain || undefined }
sendCatchContext(s) ==
  [tx |-> s.args.tx, account |-> s.account,
   chain |-> IF s.args.chain.kind = "chain" THEN s.args.chain ELSE UndefinedChain]

\* mutant: the failure is thrown on as it came, not wrapped
\* mutant: a fetch of the chain id that failed is issued a second time
sendCatchRetry(s, err) ==
  IF s.pc = "getChainId" /\ Len(s.trace) = 2
  THEN CallGetChainId(s, "getChainId")
  ELSE Throw(s, getTransactionError(err, sendCatchContext(s)))

sendCatchRethrow(s, err) == Throw(s, err)

\* catch (err) { throw getTransactionError(err, ...) }
sendCatch(s, err) == Throw(s, getTransactionError(err, sendCatchContext(s)))

\* the object literal handed to prepareRequest (account and chain travel in s)
sendPrepareArgs(s) ==
  Spread(Pick(s.args.tx, NamedKeys), Omit(s.args.tx, NamedKeys))

\* mutant: gas is left out of the object literal
sendRemoteFieldsNoGas(s) ==
  Spread(extract(Omit(s.args.tx, NamedKeys), FormatterOf(s.chain)),
         Spread(Pick(s.args.tx, NamedKeys \ {"gas"}), Obj("from", Num(s.account.address))))

\* mutant: the extras are spread whole, after the named fields and from
sendRemoteFieldsExtrasLast(s) ==
  Spread(Spread(Pick(s.args.tx, NamedKeys), Obj("from", Num(s.account.address))),
         Omit(s.args.tx, NamedKeys))

\* the object literal handed to format on the json-rpc branch
sendRemoteFields(s) ==
  Spread(extract(Omit(s.args.tx, NamedKeys), FormatterOf(s.chain)),
         Spread(Pick(s.args.tx, NamedKeys), Obj("from", Num(s.account.address))))

\* mutant: the json-rpc branch sends its request twice
sendBranchTwice(s) ==
  IF s.account.type = "local"
  THEN Log(Goto(s, "prepare"), Event("prepareRequest", "", sendPrepareArgs(s), 0))
  ELSE CallRequest(CallRequest(s, "remote", "eth_sendTransaction",
                               Format(FormatterOf(s.chain), sendRemoteFields(s))),
                   "remote", "eth_sendTransaction",
                   Format(FormatterOf(s.chain), sendRemoteFields(s)))

\* lines 126-178 up to the first await: the branch on account.type
sendBranch(s) ==
  IF s.account.type = "local"
  THEN Log(Goto(s, "prepare"), Event("prepareRequest", "", sendPrepareArgs(s), 0))
  ELSE CallRequest(s, "remote", "eth_sendTransaction",
                   Format(FormatterOf(s.chain), sendRemoteFields(s)))

\* account.signTransaction({ ...request, chainId }, { serializer })
sendSign(s, request) ==
  CallSign(s, Spread(request, Obj("chainId", Num(s.chainId))), SerializerOf(s.chain))

\* mutant: the comparison is made and its verdict dropped
sendCheckChainIgnored(s) ==
  sendBranch(Log(s, Event("assertCurrentChain", "", Obj("chainId", Num(s.chainId)), 0)))

\* the chain-id check once getChainId has answered
sendCheckChain(s) ==
  LET checked == Log(s, Event("assertCurrentChain", "", Obj("chainId", Num(s.chainId)), 0))
      verdict == assertCurrentChain(s.chainId, s.chain)
  IN IF verdict = "ok" THEN sendBranch(checked) ELSE sendCatch(checked, Error(verdict))

\* mutant: the chain id is asked for before the request is validated
sendEnterFetchFirst(s, cl) ==
  LET account_ == DefaultAccount(s.args, cl)
      r == [s EXCEPT !.account = parseAccount(account_),
                     !.chain = DefaultChain(s.args, cl)]
  IN IF account_ = NoAccount THEN Throw(s, Error("AccountNotFound"))
     ELSE IF ~assertRequest([account |-> s.args.account, tx |-> s.args.tx])
          THEN sendCatch(CallGetChainId(r, "getChainId"), Error("InvalidRequest"))
     ELSE IF r.chain # NullChain THEN CallGetChainId(r, "getChainId")
     ELSE sendBranch(r)

\* from the call to the first await, or to the throw that ends the call
sendEnter(s, cl) ==
  LET account_ == DefaultAccount(s.args, cl)
      r == [s EXCEPT !.account = parseAccount(account_),
                     !.chain = DefaultChain(s.args, cl)]
  IN IF account_ = NoAccount THEN Throw(s, Error("AccountNotFound"))
     ELSE IF ~assertRequest([account |-> s.args.account, tx |-> s.args.tx])
          THEN sendCatch(r, Error("InvalidRequest"))
     ELSE IF r.chain # NullChain THEN CallGetChainId(r, "getChainId")
     ELSE sendBranch(r)

\* mutant: the prepared request is broadcast before it is signed
sendPreparedBroadcastFirst(s, request) ==
  sendSign(Log(s, Event("request", "eth_sendRawTransaction", request, 0)), request)

\* once prepareRequest has answered: if (!chainId) chainId = await getChainId(client)
sendPrepared(s, request) ==
  IF Falsy(s.chainId) THEN CallGetChainId([s EXCEPT !.request = request], "refetch")
  ELSE sendSign(s, request)

GotChainId(s, id) ==
  Log([s EXCEPT !.chainId = id], Event("chainId", "", Obj("chainId", Num(id)), 0))

\* the collaborator that was awaited has failed: its promise is rejected
Rejected(s) == Log(s, Event("rejected", "", EmptyObj, 0))

Pending(d, mode, pc) == disp[d].mode = mode /\ disp[d].pc = pc
\* mutant: the chain id a dispatch holds is kept in one place for all of them
StepSharedChainId(d, s) ==
  /\ disp' = [e \in Dispatches |->
               IF e = d THEN s ELSE [disp[e] EXCEPT !.chainId = s.chainId]]
  /\ UNCHANGED <<client, nodeChainId, switches>>

Step(d, s) == /\ disp' = [disp EXCEPT ![d] = s]
              /\ UNCHANGED <<client, nodeChainId, switches>>

SendStart(d) ==
  /\ Pending(d, "send", "start")
  /\ Step(d, sendEnter(disp[d], client))

SendChainIdReturn(d) ==
  /\ Pending(d, "send", "getChainId")
  /\ \/ Step(d, sendCheckChain(GotChainId(disp[d], nodeChainId)))
     \/ Step(d, sendCatch(Rejected(disp[d]), Error("TransportError")))

SendPrepareReturn(d) ==
  /\ Pending(d, "send", "prepare")
  /\ \/ \E est \in 1..MaxEstimate :
          Step(d, sendPrepared(disp[d], prepareRequest(sendPrepareArgs(disp[d]), est)))
     \/ Step(d, sendCatch(Rejected(disp[d]), Error("RequestPreparationError")))

SendRefetchReturn(d) ==
  /\ Pending(d, "send", "refetch")
  /\ \/ Step(d, LET s == GotChainId(disp[d], nodeChainId) IN sendSign(s, s.request))
     \/ Step(d, sendCatch(Rejected(disp[d]), Error("TransportError")))

\* the bytes account.signTransaction returns for the call that is pending
SignedBytes(s) ==
  LET call == s.trace[Len(s.trace)] IN Serialized(call.payload, call.serializer)

\* mutant: the record that was handed to the signer is broadcast, not the bytes
sendBroadcastUnsigned(s, signedRequest) ==
  CallRequest(Log(s, Event("signed", "", signedRequest, 0)),
              "broadcast", "eth_sendRawTransaction", s.request)

\* signedRequest = await account.signTransaction(...), then
\* client.request({ method: 'eth_sendRawTransaction', params: [signedRequest] })
sendBroadcast(s, signedRequest) ==
  CallRequest(Log(s, Event("signed", "", signedRequest, 0)),
              "broadcast", "eth_sendRawTransaction", signedRequest)

\* return await client.request(...)
sendReturn(s, response) == Return(Log(s, Event("response", "", response, 0)), response)

SendSignReturn(d) ==
  /\ Pending(d, "send", "sign")
  /\ \/ Step(d, sendBroadcast(disp[d], SignedBytes(disp[d])))
     \/ Step(d, sendCatch(Rejected(disp[d]), Error("SigningError")))

SendBroadcastReturn(d) ==
  /\ Pending(d, "send", "broadcast")
  /\ \/ \E r \in 1..MaxResp : Step(d, sendReturn(disp[d], Response(r)))
     \/ Step(d, sendCatch(Rejected(disp[d]), Error("TransportError")))

SendRemoteReturn(d) ==
  /\ Pending(d, "send", "remote")
  /\ \/ \E r \in 1..MaxResp : Step(d, sendReturn(disp[d], Response(r)))
     \/ Step(d, sendCatch(Rejected(disp[d]), Error("TransportError")))

(***************************************************************************)
(* signTransaction.                                                        *)
(***************************************************************************)
\* { chainId, ...transaction }, signed with client.chain's serializer
signLocalRecord(s) == Spread(Obj("chainId", Num(s.chainId)), s.args.tx)

\* { chainId: numberToHex(chainId), ...format(transaction) }
signRemoteRecord(s, cl) ==
  LET hook == IF FormatterOf(s.chain) > 0 THEN FormatterOf(s.chain)
              ELSE FormatterOf(cl.chain)
  IN Spread(Obj("chainId", numberToHex(s.chainId)), Format(hook, s.args.tx))

\* mutant: the branch is taken on the type of the client's account
signBranchClientAccount(s, cl) ==
  IF cl.account.type = "local"
  THEN CallSign(s, signLocalRecord(s), SerializerOf(cl.chain))
  ELSE CallRequest(s, "remote", "eth_signTransaction", signRemoteRecord(s, cl))

\* lines 74-95: the branch on account.type
signBranch(s, cl) ==
  IF s.account.type = "local"
  THEN CallSign(s, signLocalRecord(s), SerializerOf(cl.chain))
  ELSE CallRequest(s, "remote", "eth_signTransaction", signRemoteRecord(s, cl))

\* mutant: the comparison is made whatever the chain is, null included
signCheckChainAlways(s, cl) ==
  LET checked == Log(s, Event("assertCurrentChain", "",
                              Obj("chainId", Num(s.chainId)), 0))
      verdict == assertCurrentChain(s.chainId, s.chain)
  IN IF verdict = "ok" THEN signBranch(checked, cl)
     ELSE Throw(checked, Error(verdict))

\* lines 68-72, once getChainId has answered
signCheckChain(s, cl) ==
  IF s.chain = NullChain THEN signBranch(s, cl)
  ELSE LET checked == Log(s, Event("assertCurrentChain", "",
                                   Obj("chainId", Num(s.chainId)), 0))
           verdict == assertCurrentChain(s.chainId, s.chain)
       IN IF verdict = "ok" THEN signBranch(checked, cl)
          ELSE Throw(checked, Error(verdict))

\* from the call to the first await, or to the throw that ends the call
signEnter(s, cl) ==
  LET account_ == DefaultAccount(s.args, cl)
      r == [s EXCEPT !.account = parseAccount(account_),
                     !.chain = DefaultChain(s.args, cl)]
  IN IF account_ = NoAccount THEN Throw(s, Error("AccountNotFound"))
     ELSE IF ~assertRequest([account |-> IF s.args.account = NoAccount THEN r.account
                                         ELSE s.args.account,
                             tx |-> s.args.tx])
          THEN Throw(r, Error("InvalidRequest"))
     ELSE CallGetChainId(r, "getChainId")

SignStart(d) ==
  /\ Pending(d, "sign", "start")
  /\ Step(d, signEnter(disp[d], client))

SignChainIdReturn(d) ==
  /\ Pending(d, "sign", "getChainId")
  /\ \/ Step(d, signCheckChain(GotChainId(disp[d], nodeChainId), client))
     \/ Step(d, Throw(Rejected(disp[d]), Error("TransportError")))

\* return account.signTransaction(...): the bytes are the result
signReturnSigned(s, bytes) == Return(Log(s, Event("signed", "", bytes, 0)), bytes)

\* return await client.request({ method: 'eth_signTransaction', ... })
signReturn(s, response) == Return(Log(s, Event("response", "", response, 0)), response)

SignSignReturn(d) ==
  /\ Pending(d, "sign", "sign")
  /\ \/ Step(d, signReturnSigned(disp[d], SignedBytes(disp[d])))
     \/ Step(d, Throw(Rejected(disp[d]), Error("SigningError")))

SignRemoteReturn(d) ==
  /\ Pending(d, "sign", "remote")
  /\ \/ \E r \in 1..MaxResp : Step(d, signReturn(disp[d], Response(r)))
     \/ Step(d, Throw(Rejected(disp[d]), Error("TransportError")))

(***************************************************************************)
(* The node: the wallet may switch chains while a dispatch is suspended.   *)
(* A switch is observable only while some dispatch may still ask for the   *)
(* chain id, so only those switches are taken.                             *)
(***************************************************************************)
NodeSwitchChain ==
  /\ switches < MaxSwitches
  /\ \E d \in Dispatches : disp[d].pc \in {"getChainId", "prepare", "refetch"}
  /\ \E id \in ChainIds \ {nodeChainId} : nodeChainId' = id
  /\ switches' = switches + 1
  /\ UNCHANGED <<client, disp>>

(***************************************************************************)
(* Inputs.                                                                 *)
(***************************************************************************)
InputKeys == {"to", "gas", "gasPrice", "maxFeePerGas", "chainId", "gatewayFee", "from"}
\* the caller's value of a field: a chain id, or the number 1 (an estimate may
\* equal it or differ from it, an account's address likewise)
FieldVals(k) == IF k = "chainId" THEN {Num(i) : i \in ChainIds} ELSE {Num(1)}
AllVals == UNION {FieldVals(k) : k \in InputKeys}
Intents ==
  UNION {{o \in [K -> AllVals] : \A k \in K : o[k] \in FieldVals(k)} :
         K \in {K \in SUBSET InputKeys : Cardinality(K) <= MaxSetFields}}

\* <<args.account, client.account>>: no account at all, the client's account
\* inherited, an account of the arguments alone, and an account of the arguments
\* over a client's account of the other type
AccountPairs == {<<NoAccount, NoAccount>>,
                 <<NoAccount, LocalAccount(1)>>,
                 <<NoAccount, JsonRpcAccount(2)>>,
                 <<BareAddress(1), NoAccount>>,
                 <<BareAddress(1), LocalAccount(1)>>,
                 <<LocalAccount(2), JsonRpcAccount(2)>>}
ClientChains == {UndefinedChain} \cup Chains
ArgChains == {UndefinedChain, NullChain} \cup Chains
Modes == {"send", "sign"}

\* SignTransactionParameters: either a chain (chainId?: never) or a chainId
\* (chain?: never)
WellTyped(mode, chain, tx) ==
  (mode = "sign" /\ "chainId" \in DOMAIN tx) => chain = UndefinedChain

Init ==
  /\ nodeChainId \in ChainIds
  /\ switches = 0
  /\ \E accounts \in AccountPairs, clientChain \in ClientChains,
        mode \in Modes, chain \in ArgChains, tx \in Intents :
       /\ WellTyped(mode, chain, tx)
       /\ client = [account |-> accounts[2], chain |-> clientChain]
       /\ disp = [d \in Dispatches |->
                    IF d = 1
                    THEN NewDispatch(mode, [account |-> accounts[1],
                                            chain |-> chain, tx |-> tx])
                    ELSE Unused]

Next ==
  \/ \E d \in Dispatches : SendStart(d)
  \/ \E d \in Dispatches : SendChainIdReturn(d)
  \/ \E d \in Dispatches : SendPrepareReturn(d)
  \/ \E d \in Dispatches : SendRefetchReturn(d)
  \/ \E d \in Dispatches : SendSignReturn(d)
  \/ \E d \in Dispatches : SendBroadcastReturn(d)
  \/ \E d \in Dispatches : SendRemoteReturn(d)
  \/ \E d \in Dispatches : SignStart(d)
  \/ \E d \in Dispatches : SignChainIdReturn(d)
  \/ \E d \in Dispatches : SignSignReturn(d)
  \/ \E d \in Dispatches : SignRemoteReturn(d)
  \/ NodeSwitchChain

Spec == Init /\ [][Next]_vars

\* Concurrent calls on one client: every dispatch is a call in progress. The
\* client has an account of either type and a chain, on which the node starts
\* (it may switch later); the calls inherit the
\* account, differ in their intent, and every second one opts out of the
\* chain check (chain: null).
ConcClientAccounts == {LocalAccount(1), JsonRpcAccount(2)}
ConcClientChain == Chain(1, 0)
ConcArgs(d) ==
  [account |-> NoAccount,
   chain |-> IF d % 2 = 0 THEN NullChain ELSE UndefinedChain,
   tx |-> IF d % 2 = 0 THEN Obj("gas", Num(1)) ELSE Obj("to", Num(1))]

InitConc ==
  /\ nodeChainId = ConcClientChain.id
  /\ switches = 0
  /\ \E account \in ConcClientAccounts, modes \in [Dispatches -> Modes] :
       /\ client = [account |-> account, chain |-> ConcClientChain]
       /\ disp = [d \in Dispatches |-> NewDispatch(modes[d], ConcArgs(d))]

SpecConc == InitConc /\ [][Next]_vars

TypeOK ==
  /\ nodeChainId \in ChainIds
  /\ \A d \in Dispatches : disp[d].chainId \in ChainIdOrUndefined

(***************************************************************************)
(* Reading a dispatch's history.                                           *)
(***************************************************************************)
Active(d) == disp[d].mode \in Modes
Events(d, ops) == {i \in 1..Len(disp[d].trace) : disp[d].trace[i].op \in ops}
Requests(d, methods) ==
  {i \in Events(d, {"request"}) : disp[d].trace[i].method \in methods}
Failed(d) == Active(d) /\ disp[d].result.status = "error"
Succeeded(d) == Active(d) /\ disp[d].result.status = "ok"
Cause(d) == disp[d].result.error.cause
\* the chain id the node answered to the first getChainId of the dispatch
FirstFetched(d) ==
  LET i == CHOOSE i \in Events(d, {"chainId"}) : \A j \in Events(d, {"chainId"}) : i <= j
  IN Val(disp[d].trace[i].payload["chainId"])
\* the calls that hand a record to a signer: the account's, or the remote one
SignCalls(d) == Events(d, {"signTransaction"}) \cup Requests(d, {"eth_signTransaction"})

(***************************************************************************)
(* C1..C3: the chain check and the failures before the network.            *)
(***************************************************************************)
\* the chain check was made against a declared chain and the node answered
\* another id than the declared one
ChainMismatched(d) ==
  /\ Active(d)
  /\ disp[d].chain.kind = "chain"
  /\ Events(d, {"chainId"}) # {}
  /\ FirstFetched(d) # disp[d].chain.id

\* C1: in both entry points and for both account types, when the chain check is
\* not opted out and the node's chain id differs from the declared chain's id,
\* the dispatch has ended in a ChainMismatch failure and has issued no
\* account.signTransaction call and no client.request of any method.
C1_ChainMismatchStops ==
  \A d \in Dispatches :
    ChainMismatched(d) =>
      /\ disp[d].pc = "done"
      /\ Failed(d)
      /\ Cause(d) = "ChainMismatch"
      /\ Events(d, {"signTransaction", "signed", "request", "prepareRequest"}) = {}

C1_Witness ==
  \E d \in Dispatches :
    /\ ChainMismatched(d)
    /\ disp[d].mode = "send"
    /\ disp[d].account.type = "local"
    /\ Failed(d)

\* C2 (as claimed): in every successful dispatch whose chain check is not opted
\* out, the record handed to account.signTransaction or to eth_signTransaction
\* carries the chain id the node reported during the dispatch, whatever the
\* intent holds, a chainId of its own included.
C2_SignedChainIdIsNodeChainId ==
  \A d \in Dispatches :
    (Succeeded(d) /\ disp[d].chain # NullChain) =>
      \A i \in SignCalls(d) :
        /\ "chainId" \in DOMAIN disp[d].trace[i].payload
        /\ Val(disp[d].trace[i].payload["chainId"]) = disp[d].chainId

\* C3: a dispatch that failed with AccountNotFound or InvalidRequest has made no
\* call at all to a collaborator: no getChainId, no estimation, no signing, no
\* client.request.
C3_EarlyFailureNoRoundTrip ==
  \A d \in Dispatches :
    (Failed(d) /\ Cause(d) \in {"AccountNotFound", "InvalidRequest"}) =>
      disp[d].trace = <<>>

C3_Witness ==
  \E d \in Dispatches :
    /\ Failed(d)
    /\ Cause(d) = "InvalidRequest"
    /\ disp[d].mode = "send"
    /\ disp[d].chain.kind = "chain"

ResolvedChainOrNone(d) ==
  IF disp[d].chain = NullChain THEN UndefinedChain ELSE disp[d].chain

\* C5 (as claimed): a wrapped error carries the caller's intent, the resolved
\* account and the resolved chain (the caller's override, else the client's
\* chain), the chain being "none" only when the check was opted out.
C5_WrappedErrorCarriesResolvedChain ==
  \A d \in Dispatches :
    (Failed(d) /\ disp[d].result.error.wraps >= 1) =>
      /\ disp[d].result.error.intent = disp[d].args.tx
      /\ disp[d].result.error.account = disp[d].account
      /\ disp[d].result.error.chain = ResolvedChainOrNone(d)

(***************************************************************************)
(* C6, C7: what precedes signing.                                          *)
(***************************************************************************)
OptedOut(d) == Active(d) /\ disp[d].args.chain = NullChain /\ disp[d].pc # "start"

\* C6 (as claimed): with chain null neither getChainId nor assertCurrentChain
\* is performed, in either entry point and for either account type.
C6_OptOutSkipsFetchAndCompare ==
  \A d \in Dispatches :
    OptedOut(d) => Events(d, {"getChainId", "assertCurrentChain"}) = {}

\* C6 (amended): with chain null assertCurrentChain is never performed; the
\* chain-id fetch is skipped only by sendTransaction with a non-local account.
\* signTransaction (either account type) and sendTransaction with a local
\* account fetch the chain id, exactly once, before the record is handed to a
\* signer.
C6_OptOutSkipsCompareOnly ==
  \A d \in Dispatches :
    OptedOut(d) =>
      /\ Events(d, {"assertCurrentChain"}) = {}
      /\ Cardinality(Events(d, {"getChainId"})) <= 1
      /\ (disp[d].mode = "send" /\ disp[d].account.type # "local")
           => Events(d, {"getChainId"}) = {}
      /\ \A i \in SignCalls(d) :
           Cardinality({j \in Events(d, {"chainId"}) : j < i}) = 1

C6_Witness ==
  \E d \in Dispatches :
    /\ OptedOut(d)
    /\ Succeeded(d)
    /\ disp[d].mode = "sign"
    /\ disp[d].account.type = "local"
    /\ Events(d, {"getChainId"}) # {}

RoundTripOps == {"getChainId", "prepareRequest", "request"}
LocalDispatch(d) == Active(d) /\ disp[d].account.type = "local"

\* C7 (as claimed): with a local account no round-trip of any kind is made
\* before account.signTransaction has returned the signed bytes.
C7_NoRoundTripBeforeSigned ==
  \A d \in Dispatches :
    LocalDispatch(d) =>
      \A i \in Events(d, RoundTripOps) : \E j \in Events(d, {"signed"}) : j < i

\* C7 (amended): with a local account no client.request (broadcast or remote
\* signing) is issued before account.signTransaction has returned the signed
\* bytes, and signTransaction issues none at all; the chain-id fetch (both
\* entry points) and the estimation (sendTransaction) are round-trips that
\* precede every call of account.signTransaction.
C7_OnlyFetchAndEstimateBeforeSigned ==
  \A d \in Dispatches :
    LocalDispatch(d) =>
      /\ \A i \in Events(d, {"request"}) : \E j \in Events(d, {"signed"}) : j < i
      /\ disp[d].mode = "sign" => Events(d, {"request", "prepareRequest"}) = {}
      /\ \A i \in Events(d, {"signTransaction"}) :
           /\ \E j \in Events(d, {"chainId"}) : j < i
           /\ disp[d].mode = "send" => \E j \in Events(d, {"prepareRequest"}) : j < i

C7_Witness ==
  \E d \in Dispatches :
    /\ LocalDispatch(d)
    /\ disp[d].mode = "send"
    /\ Succeeded(d)
    /\ Requests(d, {"eth_sendRawTransaction"}) # {}

(***************************************************************************)
(* C8, C9: the requests of the two branches and the value returned.        *)
(***************************************************************************)
RemoteDispatch(d) == Active(d) /\ disp[d].account.type = "json-rpc"
OwnMethod(d) == IF disp[d].mode = "send" THEN "eth_sendTransaction"
                ELSE "eth_signTransaction"

\* the dispatch resolved an account and its request passed assertRequest
Validated(d) ==
  /\ disp[d].pc # "start"
  /\ disp[d].account # NoAccount
  /\ ~(Failed(d) /\ Cause(d) \in {"AccountNotFound", "InvalidRequest"})

\* every chain-id fetch the guard makes has answered, and the comparison passed
\* or was opted out
ChainCheckPassed(d) ==
  IF disp[d].chain = NullChain
  THEN disp[d].mode = "send" \/ Events(d, {"chainId"}) # {}
  ELSE /\ disp[d].chain.kind = "chain"
       /\ Events(d, {"chainId"}) # {}
       /\ FirstFetched(d) = disp[d].chain.id

\* the last event of the history is the answer the dispatch returned
ReturnedLast(d, op) ==
  /\ disp[d].trace # <<>>
  /\ disp[d].trace[Len(disp[d].trace)].op = op
  /\ disp[d].result.value = disp[d].trace[Len(disp[d].trace)].payload

\* C8: with a json-rpc account, a dispatch that passed validation and the chain
\* check has issued exactly one client.request, of method eth_sendTransaction
\* in sendTransaction and eth_signTransaction in signTransaction; no dispatch
\* issues another method or a second request, and a successful dispatch returns
\* the answer to that request as it came.
C8_RemoteOneRequest ==
  \A d \in Dispatches :
    RemoteDispatch(d) =>
      /\ Events(d, {"request"}) = Requests(d, {OwnMethod(d)})
      /\ Cardinality(Events(d, {"request"})) <= 1
      /\ (Validated(d) /\ ChainCheckPassed(d)) =>
           Cardinality(Events(d, {"request"})) = 1
      /\ Succeeded(d) => ReturnedLast(d, "response")

C8_Witness ==
  \E d \in Dispatches :
    /\ RemoteDispatch(d)
    /\ disp[d].mode = "send"
    /\ disp[d].chain.kind = "chain"
    /\ Succeeded(d)
    /\ Requests(d, {"eth_sendTransaction"}) # {}

\* C9: with a local account, sendTransaction issues at most one request, always
\* eth_sendRawTransaction, exactly one once account.signTransaction has
\* returned, issued right after that return with the returned bytes as its
\* parameter, and it returns that request's answer; signTransaction issues no
\* request and returns the bytes account.signTransaction returned.
C9_LocalSignThenBroadcast ==
  \A d \in Dispatches :
    LocalDispatch(d) =>
      LET t == disp[d].trace IN
      /\ \A i \in Events(d, {"signed"}) :
           /\ i > 1
           /\ t[i - 1].op = "signTransaction"
           /\ t[i].payload = Serialized(t[i - 1].payload, t[i - 1].serializer)
      /\ IF disp[d].mode = "send"
         THEN /\ Events(d, {"request"}) = Requests(d, {"eth_sendRawTransaction"})
              /\ Cardinality(Events(d, {"request"})) <= 1
              /\ Events(d, {"signed"}) # {} => Events(d, {"request"}) # {}
              /\ \A i \in Events(d, {"request"}) :
                   /\ i > 1
                   /\ t[i - 1].op = "signed"
                   /\ t[i].payload = t[i - 1].payload
              /\ Succeeded(d) => ReturnedLast(d, "response")
         ELSE /\ Events(d, {"request"}) = {}
              /\ Succeeded(d) => ReturnedLast(d, "signed")

C9_Witness ==
  \E d \in Dispatches :
    /\ LocalDispatch(d)
    /\ disp[d].mode = "send"
    /\ Succeeded(d)
    /\ Events(d, {"signed"}) # {}
    /\ disp[d].chainId = nodeChainId

(***************************************************************************)
(* C10: the caller's fields survive the merge.                             *)
(***************************************************************************)
\* the fields of the claim: the named ones, and the extra field of the chain's
\* own request type when the resolved chain declares a formatter that knows it
CallerKeys(d) ==
  NamedKeys \cup (IF FormatterOf(disp[d].chain) > 0 THEN ChainKeys ELSE {})

\* the calls that hand the merged record over: to the account's signer, or to
\* the remote channel
RecordCalls(d) ==
  Events(d, {"signTransaction"})
    \cup Requests(d, {"eth_sendTransaction", "eth_signTransaction"})

\* C10: every such field the caller set has, in the record handed to
\* account.signTransaction or sent in the remote request, the value the caller
\* gave it (in hex on the remote branch), whatever estimation answered and
\* whatever the chain's formatter is.
C10_CallerFieldsSurvive ==
  \A d \in Dispatches :
    Active(d) =>
      \A i \in RecordCalls(d) :
        \A k \in (DOMAIN disp[d].args.tx) \cap CallerKeys(d) :
          /\ k \in DOMAIN disp[d].trace[i].payload
          /\ Val(disp[d].trace[i].payload[k]) = Val(disp[d].args.tx[k])

\* the caller set gas, estimation answered another number for the fields it
\* filled, and the record was signed
C10_Witness ==
  \E d \in Dispatches :
    /\ LocalDispatch(d)
    /\ disp[d].mode = "send"
    /\ "gas" \in DOMAIN disp[d].args.tx
    /\ \E i \in Events(d, {"signTransaction"}) :
         /\ "nonce" \in DOMAIN disp[d].trace[i].payload
         /\ disp[d].trace[i].payload["nonce"] # disp[d].args.tx["gas"]

(***************************************************************************)
(* C11: a failed estimation.                                               *)
(***************************************************************************)
PreparationFailed(d) ==
  /\ Failed(d)
  /\ disp[d].mode = "send"
  /\ Cause(d) = "RequestPreparationError"

\* C11: when prepareRequest fails in sendTransaction (which happens with a
\* local account only), the caller receives the failure wrapped once by
\* getTransactionError, carrying the caller's intent and the resolved account,
\* and the dispatch has called neither account.signTransaction nor
\* client.request.
C11_PreparationFailureWrapped ==
  \A d \in Dispatches :
    PreparationFailed(d) =>
      /\ disp[d].account.type = "local"
      /\ disp[d].result.error.wraps = 1
      /\ disp[d].result.error.intent = disp[d].args.tx
      /\ disp[d].result.error.account = disp[d].account
      /\ Events(d, {"signTransaction", "signed", "request"}) = {}

\* the account was inherited from the client: the arguments name none
C11_Witness ==
  \E d \in Dispatches :
    /\ PreparationFailed(d)
    /\ disp[d].args.account = NoAccount
    /\ disp[d].args.tx # EmptyObj
    /\ Events(d, {"prepareRequest"}) # {}

(***************************************************************************)
(* C12: no retry, one outcome.                                             *)
(***************************************************************************)
DispatchStep(d) ==
  \/ SendStart(d) \/ SendChainIdReturn(d) \/ SendPrepareReturn(d)
  \/ SendRefetchReturn(d) \/ SendSignReturn(d) \/ SendBroadcastReturn(d)
  \/ SendRemoteReturn(d)
  \/ SignStart(d) \/ SignChainIdReturn(d) \/ SignSignReturn(d)
  \/ SignRemoteReturn(d)

\* the dispatch has settled exactly when it is done, as a value or as an error
OneOutcome(d) ==
  /\ (disp[d].pc = "done") <=> (disp[d].result.status # "pending")
  /\ Succeeded(d) => disp[d].result.error = NoError
  /\ Failed(d) => disp[d].result.value = EmptyObj /\ disp[d].result.error # NoError

\* a rejected call is the last thing the dispatch did, and it failed
RejectionIsFinal(d) ==
  \A i \in Events(d, {"rejected"}) : i = Len(disp[d].trace) /\ Failed(d)

\* a dispatch that is not done waits for one collaborator, whose answer (or
\* failure) moves it on; it makes at most ten calls and returns
Progresses(d) ==
  /\ disp[d].pc # "done" => ENABLED DispatchStep(d)
  /\ Len(disp[d].trace) <= 10

\* C12: a rejected round-trip (chain-id fetch, estimation, signing, broadcast,
\* remote request) is the last call of its dispatch, which ends as a failure;
\* a dispatch ends with one outcome, which never changes afterwards, and a
\* dispatch that has not ended can always take the answer it waits for.
C12_NoRetryOneOutcome ==
  /\ [](\A d \in Dispatches :
          Active(d) => OneOutcome(d) /\ RejectionIsFinal(d) /\ Progresses(d))
  /\ [][\A d \in Dispatches : disp[d].pc = "done" => disp'[d] = disp[d]]_vars

\* the broadcast failed after the fetch, the estimation and the signing succeeded
C12_Witness ==
  \E d \in Dispatches :
    /\ Failed(d)
    /\ Events(d, {"rejected"}) # {}
    /\ Events(d, {"signed"}) # {}
    /\ Requests(d, {"eth_sendRawTransaction"}) # {}

(***************************************************************************)
(* C13: concurrent dispatches on one client (checked under SpecConc).      *)
(***************************************************************************)
\* the chain id the dispatch itself fetched last before its i-th call
OwnFetched(d, i) ==
  LET F == {j \in Events(d, {"chainId"}) : j < i}
      j == CHOOSE j \in F : \A k \in F : k <= j
  IN Val(disp[d].trace[j].payload["chainId"])

\* the records the dispatch handed out carry its own intent, and the chain id
\* of its own fetch where one is attached
OwnRecord(d) ==
  /\ \A i \in RecordCalls(d) :
       \A k \in DOMAIN disp[d].args.tx :
         /\ k \in DOMAIN disp[d].trace[i].payload
         /\ Val(disp[d].trace[i].payload[k]) = Val(disp[d].args.tx[k])
  /\ \A i \in SignCalls(d) :
       /\ {j \in Events(d, {"chainId"}) : j < i} # {}
       /\ Val(disp[d].trace[i].payload["chainId"]) = OwnFetched(d, i)
  /\ disp[d].account = NoAccount \/ disp[d].account = parseAccount(client.account)

\* a step leaves the client, every intent and every other dispatch alone
OwnStep ==
  /\ client' = client
  /\ \A d \in Dispatches : disp'[d].args = disp[d].args
  /\ \A d, e \in Dispatches :
       (disp'[d] # disp[d] /\ disp'[e] # disp[e]) => d = e

\* C13: in every interleaving of the dispatches of one client, a step writes
\* neither the client nor an intent nor the state of a dispatch other than
\* the one that takes it, and every record a dispatch signs or sends is made of
\* its own intent and of the chain id its own fetch returned.
C13_DispatchesDoNotInterfere ==
  /\ [](\A d \in Dispatches : OwnRecord(d))
  /\ [][OwnStep]_vars

\* two calls both had a record signed, over chain ids that differ: the node
\* switched chains between their fetches
C13_Witness ==
  \E d, e \in Dispatches :
    /\ Succeeded(d) /\ Succeeded(e)
    /\ \E i \in SignCalls(d), j \in SignCalls(e) :
         disp[d].trace[i].payload["chainId"] # disp[e].trace[j].payload["chainId"]

(***************************************************************************)
(* C14: one fetch of the chain id per dispatch.                            *)
(***************************************************************************)
\* C14 (as claimed): a dispatch calls getChainId at most once, whatever the
\* node reports (0 included), and the id of that fetch is the one compared with
\* the declared chain and the one in the record handed to the signer. (Intents
\* that carry a chainId of their own are left to C2.)
C14_ChainIdFetchedOnce ==
  \A d \in Dispatches :
    (Active(d) /\ "chainId" \notin DOMAIN disp[d].args.tx) =>
      /\ Cardinality(Events(d, {"getChainId"})) <= 1
      /\ \A i \in Events(d, {"assertCurrentChain"}) :
           Val(disp[d].trace[i].payload["chainId"]) = FirstFetched(d)
      /\ \A i \in SignCalls(d) :
           Val(disp[d].trace[i].payload["chainId"]) = FirstFetched(d)

(***************************************************************************)
(* C15: estimation before local signing, none before remote signing.       *)
(***************************************************************************)
EstimatedKeys == {"gas", "nonce", "gasPrice", "maxFeePerGas", "maxPriorityFeePerGas"}

\* C15 (as claimed): in both entry points the record a local account signs
\* went through prepareRequest and has every fee and nonce field set; with a
\* json-rpc account prepareRequest is not called and the request sent holds no
\* fee or nonce field the caller did not set.
C15_LocalRecordPrepared ==
  \A d \in Dispatches :
    /\ LocalDispatch(d) =>
         \A i \in Events(d, {"signTransaction"}) :
           /\ \E j \in Events(d, {"prepareRequest"}) : j < i
           /\ FeeKeys(disp[d].trace[i].payload) \subseteq DOMAIN disp[d].trace[i].payload
    /\ RemoteDispatch(d) =>
         /\ Events(d, {"prepareRequest"}) = {}
         /\ \A i \in Requests(d, {OwnMethod(d)}) :
              (EstimatedKeys \cap DOMAIN disp[d].trace[i].payload)
                \subseteq DOMAIN disp[d].args.tx

(***************************************************************************)
(* C16: the account's type selects the branch.                             *)
(***************************************************************************)
\* C16: a dispatch whose resolved account is local issues no
\* eth_sendTransaction and no eth_signTransaction, and the records it hands to
\* the account hold plain numbers (no formatter has made them hex); a dispatch
\* whose resolved account is json-rpc calls neither prepareRequest nor
\* account.signTransaction nor eth_sendRawTransaction. This holds for every
\* intent, chain and mode.
C16_AccountTypeSelectsBranch ==
  \A d \in Dispatches :
    /\ LocalDispatch(d) =>
         /\ Requests(d, {"eth_sendTransaction", "eth_signTransaction"}) = {}
         /\ \A i \in Events(d, {"signTransaction"}) :
              \A k \in DOMAIN disp[d].trace[i].payload :
                disp[d].trace[i].payload[k][1] = "num"
    /\ RemoteDispatch(d) =>
         /\ Events(d, {"prepareRequest", "signTransaction", "signed"}) = {}
         /\ Requests(d, {"eth_sendRawTransaction"}) = {}

\* the arguments name an address although the client has a local account: the
\* remote branch ran, with an intent that sets fields
C16_Witness ==
  \E d \in Dispatches :
    /\ RemoteDispatch(d) /\ Succeeded(d)
    /\ client.account.type = "local"
    /\ disp[d].args.tx # EmptyObj
    /\ Requests(d, {OwnMethod(d)}) # {}

(***************************************************************************)
(* C17: the serializer handed to the account.                              *)
(***************************************************************************)
\* C17 (as claimed): in both entry points the serializer passed to
\* account.signTransaction is the serializer hook of the dispatch's resolved
\* chain (the chain of the arguments when given, else the client's), or none
\* when that chain declares none.
C17_SerializerOfResolvedChain ==
  \A d \in Dispatches :
    LocalDispatch(d) =>
      \A i \in Events(d, {"signTransaction"}) :
        disp[d].trace[i].serializer = SerializerOf(disp[d].chain)

(***************************************************************************)
(* C18: the record of the remote request.                                  *)
(***************************************************************************)
\* C18 (as claimed): with a json-rpc account and a chain that is checked, the
\* record of the remote request (eth_sendTransaction, eth_signTransaction) is a
\* formatted record, its numeric fields in hex, with the chain id of this
\* dispatch attached in hex. (Intents that carry a chainId of their own are
\* left to C2.)
C18_RemoteRecordCarriesChainId ==
  \A d \in Dispatches :
    (RemoteDispatch(d) /\ disp[d].chain.kind = "chain"
       /\ "chainId" \notin DOMAIN disp[d].args.tx) =>
      \A i \in Requests(d, {OwnMethod(d)}) :
        /\ \A k \in HexKeys \cap DOMAIN disp[d].trace[i].payload :
             disp[d].trace[i].payload[k][1] = "hex"
        /\ "chainId" \in DOMAIN disp[d].trace[i].payload
        /\ disp[d].trace[i].payload["chainId"] = numberToHex(disp[d].chainId)

(***************************************************************************)
(* C19: the signed chain id is the declared chain's.                       *)
(***************************************************************************)
\* C19 (as claimed): when a dispatch with a declared chain succeeds, every
\* record it had signed (by the account, or by eth_signTransaction) carries the
\* declared chain's id, wherever the node switched chains in between. (Intents
\* that carry a chainId of their own are left to C2.)
C19_SignedChainIdIsDeclared ==
  \A d \in Dispatches :
    (Succeeded(d) /\ disp[d].chain.kind = "chain"
       /\ "chainId" \notin DOMAIN disp[d].args.tx) =>
      \A i \in SignCalls(d) :
        Val(disp[d].trace[i].payload["chainId"]) = disp[d].chain.id

(***************************************************************************)
(* C20: from is the resolved account's address.                            *)
(***************************************************************************)
\* C20: in sendTransaction with a json-rpc account the record of the
\* eth_sendTransaction request has, as from, the address of the resolved
\* account, whatever the intent holds (a from entry among its extras
\* included), and each named field the caller set has the caller's value.
C20_FromIsResolvedAccount ==
  \A d \in Dispatches :
    (RemoteDispatch(d) /\ disp[d].mode = "send") =>
      \A i \in Requests(d, {"eth_sendTransaction"}) :
        /\ "from" \in DOMAIN disp[d].trace[i].payload
        /\ disp[d].trace[i].payload["from"] = Num(disp[d].account.address)
        /\ \A k \in NamedKeys \cap DOMAIN disp[d].args.tx :
             /\ k \in DOMAIN disp[d].trace[i].payload
             /\ Val(disp[d].trace[i].payload[k]) = Val(disp[d].args.tx[k])

\* the intent's extras name another sender than the resolved account
C20_Witness ==
  \E d \in Dispatches :
    /\ RemoteDispatch(d) /\ disp[d].mode = "send"
    /\ Requests(d, {"eth_sendTransaction"}) # {}
    /\ "from" \in DOMAIN disp[d].args.tx
    /\ Val(disp[d].args.tx["from"]) # disp[d].account.address

====
